---- MODULE Spec2Model ----
(***************************************************************************)
(* Session lifecycle and safe-operation wrapper of src/server.js: the      *)
(* globals client / isClientReady / qrCodeData / isInitializing /          *)
(* reconnectAttempts, initializeWhatsApp with its awaits, the lifecycle    *)
(* event handlers, the reconnect / restart timers, POST /restart, the      *)
(* send routes built on safeClientOperation and the synchronous GET        *)
(* routes.                                                                 *)
(*                                                                         *)
(* Node runs every handler to its next await without preemption, so one    *)
(* action is one run-to-await segment of the code.  The whatsapp-web.js    *)
(* client is opaque: its promises settle in any order, its events fire     *)
(* while its browser page is up, and it answers only through that page.    *)
(* Timers are untimed: a pending timer may fire at any later moment.       *)
(***************************************************************************)
EXTENDS Integers, Sequences, FiniteSets, Bags

\* ---------------------------------------------------------------- bounds
MaxClients     == 2   \* Client objects constructed in one behaviour
MaxTimers      == 2   \* pending setTimeout(initializeWhatsApp) callbacks
MaxRestarts    == 1   \* restart requests suspended at client.destroy()
MaxInits       == 2   \* initializeWhatsApp executions suspended at an await
RaceClients    == 3   \* clients and timers where destroy() never rejects
RaceTimers     == 1
BackoffClients == 1   \* clients and timers where the reconnect counter is observed
BackoffTimers  == 5
BackoffInits   == 1
SendTimers     == 1   \* timers where requests are served
MaxDiscLog     == 6   \* recorded length of a run of 'disconnected' events
MaxRetriesArg  == 3   \* largest maxRetries passed to safeClientOperation
WatchClients   == 1   \* clients, timers and executions where the handlers are watched
WatchTimers    == 2
WatchInits     == 1
QrClients      == 1   \* clients and timers where pairing codes are issued
QrTimers       == 1

\* ------------------------------------------------------ program constants
MAX_RECONNECT_ATTEMPTS == 5
BaseDelay      == 5000
CapDelay       == 30000
CatchDelay     == 10000
RestartDelay   == 2000
DefaultRetries == 3

\* one handle more than any behaviour explored constructs
Handles == 1..(RaceClients + 1)
NoClient == 0            \* `let client;` : undefined
NoQr == ""               \* qrCodeData = ''
QrPayloads == {"qrA", "qrB"}

VARIABLES
    listening,          \* app.listen's callback has run
    client,             \* the global `client`: NoClient or a handle
    isClientReady,
    qrCodeData,
    isInitializing,
    reconnectAttempts,
    handle,             \* handle -> "none" | "new" | "open" | "crashed" | "destroyed"
    inits,              \* bag of initializeWhatsApp executions at an await
    timers,             \* number of pending setTimeout(initializeWhatsApp) callbacks
    lastDelay,          \* delay of the latest setTimeout(initializeWhatsApp), 0 before any
    restarts,           \* bag of handles whose destroy() a restart request awaits
    restartRes,         \* status of the latest restart response, 0 before any
    req,                \* the send request / safeClientOperation call being served
    exhausted,          \* observer: the counter reached the maximum since the last restart
    discLog,            \* observer: delays scheduled by a run of 'disconnected' from 0
    failed,             \* observer: 'auth_failure' was emitted since the last restart
    lastInit,           \* observer: the latest initializeWhatsApp call: "none" | "guarded" | "ran"
    qrCleared,          \* observer: what last emptied a non-empty qrCodeData
    http                \* the latest GET request and its response

life == <<listening, client, isClientReady, qrCodeData, isInitializing,
          reconnectAttempts, handle, inits, timers, lastDelay, restarts, restartRes>>

obs == <<exhausted, discLog>>

watch == <<failed, lastInit, qrCleared>>

vars == <<life, req, obs, watch, http>>

Min(a, b) == IF a < b THEN a ELSE b

One(x) == SetToBag({x})

\* A handle that was constructed and not destroyed
Live(h) == handle[h] \in {"new", "open", "crashed"}

LiveHandles == {h \in Handles : Live(h)}

Constructed == {h \in Handles : handle[h] # "none"}

\* the handle the next `new Client(...)` yields
NextHandle == Cardinality(Constructed) + 1

\* initializeWhatsApp executions suspended at `await client.destroy()`
DestroyBag == [r \in {x \in DOMAIN inits : x.pc = "destroy"} |-> inits[r]]

\* the guard with `<=` for `<`
CanReconnectInclusive(n) == n <= MAX_RECONNECT_ATTEMPTS

\* `reconnectAttempts < MAX_RECONNECT_ATTEMPTS`
CanReconnect(n) == n < MAX_RECONNECT_ATTEMPTS

\* a fixed reconnect delay, no backoff
BackoffFixed(n) == BaseDelay

\* the backoff without Math.min
BackoffUncapped(n) == BaseDelay * 2^(n - 1)

\* Math.min(5000 * Math.pow(2, reconnectAttempts - 1), 30000), n the incremented counter
BackoffDelay(n) == Min(BaseDelay * 2^(n - 1), CapDelay)

\* no GET request answered yet
NoHttp == [path |-> "none", status |-> 0, body |-> "none"]

IdleReq == [pc |-> "idle", kind |-> "none", i |-> 0, maxRetries |-> 0, h |-> NoClient,
            probed |-> NoClient, probes |-> 0, pfails |-> 0, ops |-> 0,
            numberIds |-> 0, unreg |-> FALSE, caught |-> "none",
            outcome |-> "none", err |-> "none", status |-> 0]

Init ==
    /\ listening = FALSE
    /\ client = NoClient
    /\ isClientReady = FALSE
    /\ qrCodeData = NoQr
    /\ isInitializing = FALSE
    /\ reconnectAttempts = 0
    /\ handle = [h \in Handles |-> "none"]
    /\ inits = EmptyBag
    /\ timers = 0
    /\ lastDelay = 0
    /\ restarts = EmptyBag
    /\ restartRes = 0
    /\ req = IdleReq
    /\ exhausted = FALSE
    /\ discLog = <<>>
    /\ failed = FALSE
    /\ lastInit = "none"
    /\ qrCleared = "none"
    /\ http = NoHttp

\* ------------------------------------------------------ initializeWhatsApp

\* the catch block of initializeWhatsApp; hs, ins, t: handles, executions and
\* timers as the try block left them
CatchInit(hs, ins, t) ==
    /\ handle' = hs
    /\ inits' = ins
    /\ isInitializing' = FALSE
    /\ isClientReady' = FALSE
    /\ IF CanReconnect(reconnectAttempts)
         THEN /\ reconnectAttempts' = reconnectAttempts + 1
              /\ timers' = t + 1
              /\ lastDelay' = CatchDelay
         ELSE /\ reconnectAttempts' = reconnectAttempts
              /\ timers' = t
              /\ lastDelay' = lastDelay
    /\ UNCHANGED <<client, qrCodeData>>

\* `client = new Client(...)`, the client.on(...) registrations and the call of
\* client.initialize(), up to its await; `new Client` may throw
ConstructClient(hs, ins, t, initFlag) ==
    \/ /\ handle' = [hs EXCEPT ![NextHandle] = "new"]
       /\ client' = NextHandle
       /\ inits' = ins (+) One([pc |-> "initialize", h |-> NextHandle])
       /\ timers' = t
       /\ isInitializing' = initFlag
       /\ UNCHANGED <<isClientReady, qrCodeData, reconnectAttempts, lastDelay>>
    \/ CatchInit(hs, ins, t)

\* initializeWhatsApp without its `if (isInitializing) return`
InitializeWhatsAppUnguarded(t) ==
    IF client # NoClient
      THEN /\ isInitializing' = TRUE
           /\ inits' = inits (+) One([pc |-> "destroy", h |-> client])
           /\ timers' = t
           /\ UNCHANGED <<client, isClientReady, qrCodeData, reconnectAttempts,
                          handle, lastDelay>>
      ELSE ConstructClient(handle, inits, t, TRUE)

\* a call of initializeWhatsApp, up to its first await; t: the pending timers
InitializeWhatsApp(t) ==
    IF isInitializing
      THEN /\ timers' = t
           /\ UNCHANGED <<client, isClientReady, qrCodeData, isInitializing,
                          reconnectAttempts, handle, inits, lastDelay>>
      ELSE IF client # NoClient
        THEN /\ isInitializing' = TRUE
             /\ inits' = inits (+) One([pc |-> "destroy", h |-> client])
             /\ timers' = t
             /\ UNCHANGED <<client, isClientReady, qrCodeData, reconnectAttempts,
                            handle, lastDelay>>
        ELSE ConstructClient(handle, inits, t, TRUE)

\* app.listen's callback
Startup ==
    /\ ~listening
    /\ listening' = TRUE
    /\ InitializeWhatsApp(timers)
    /\ UNCHANGED <<restarts, restartRes, req>>

\* a reconnect / retry / restart timer fires
TimerFire ==
    /\ timers > 0
    /\ InitializeWhatsApp(timers - 1)
    /\ UNCHANGED <<listening, restarts, restartRes, req>>

\* `await client.destroy()` of initializeWhatsApp resolves
InitDestroyResolves(r) ==
    /\ BagIn(r, inits) /\ r.pc = "destroy"
    /\ ConstructClient([handle EXCEPT ![r.h] = "destroyed"], inits (-) One(r),
                       timers, isInitializing)
    /\ UNCHANGED <<listening, restarts, restartRes, req>>

\* ... or rejects: the error is logged; the handle is destroyed or it is not
InitDestroyRejects(r) ==
    /\ BagIn(r, inits) /\ r.pc = "destroy"
    /\ \E st \in {handle[r.h], "destroyed"} :
         ConstructClient([handle EXCEPT ![r.h] = st], inits (-) One(r),
                         timers, isInitializing)
    /\ UNCHANGED <<listening, restarts, restartRes, req>>

\* `await client.initialize()` resolves: the execution ends
InitializeResolves(r) ==
    /\ BagIn(r, inits) /\ r.pc = "initialize"
    /\ inits' = inits (-) One(r)
    /\ UNCHANGED <<listening, client, isClientReady, qrCodeData, isInitializing,
                   reconnectAttempts, handle, timers, lastDelay, restarts,
                   restartRes, req>>

\* ... or rejects: the catch block
InitializeRejects(r) ==
    /\ BagIn(r, inits) /\ r.pc = "initialize"
    /\ CatchInit(handle, inits (-) One(r), timers)
    /\ UNCHANGED <<listening, restarts, restartRes, req>>

\* ------------------------------------------------ the client and its events

\* the browser page of a handle: launched by initialize(), may close on its own
PageOpens(h) ==
    /\ handle[h] = "new"
    /\ handle' = [handle EXCEPT ![h] = "open"]
    /\ UNCHANGED <<listening, client, isClientReady, qrCodeData, isInitializing,
                   reconnectAttempts, inits, timers, lastDelay, restarts,
                   restartRes, req>>

PageCloses(h) ==
    /\ handle[h] = "open"
    /\ handle' = [handle EXCEPT ![h] = "crashed"]
    /\ UNCHANGED <<listening, client, isClientReady, qrCodeData, isInitializing,
                   reconnectAttempts, inits, timers, lastDelay, restarts,
                   restartRes, req>>

\* a handle emits events, and answers calls, while its page is up
Emits(h) == handle[h] = "open"

\* the 'qr' handler without `isClientReady = false`
OnQrKeepsReady(h, q) ==
    /\ Emits(h)
    /\ qrCodeData' = q
    /\ UNCHANGED <<listening, client, isClientReady, isInitializing,
                   reconnectAttempts, handle, inits, timers, lastDelay, restarts,
                   restartRes, req>>

\* client.on('qr')
OnQr(h, q) ==
    /\ Emits(h)
    /\ qrCodeData' = q
    /\ isClientReady' = FALSE
    /\ UNCHANGED <<listening, client, isInitializing, reconnectAttempts, handle,
                   inits, timers, lastDelay, restarts, restartRes, req>>

\* client.on('authenticated')
OnAuthenticated(h) ==
    /\ Emits(h)
    /\ reconnectAttempts' = 0
    /\ UNCHANGED <<listening, client, isClientReady, qrCodeData, isInitializing,
                   handle, inits, timers, lastDelay, restarts, restartRes, req>>

\* client.on('auth_failure')
OnAuthFailure(h) ==
    /\ Emits(h)
    /\ isClientReady' = FALSE
    /\ isInitializing' = FALSE
    /\ UNCHANGED <<listening, client, qrCodeData, reconnectAttempts, handle,
                   inits, timers, lastDelay, restarts, restartRes, req>>

\* client.on('ready')
OnReady(h) ==
    /\ Emits(h)
    /\ isClientReady' = TRUE
    /\ qrCodeData' = NoQr
    /\ isInitializing' = FALSE
    /\ reconnectAttempts' = 0
    /\ UNCHANGED <<listening, client, handle, inits, timers, lastDelay,
                   restarts, restartRes, req>>

\* the 'disconnected' handler also dropping the pairing code
OnDisconnectedClearsQr(h) ==
    /\ Emits(h)
    /\ isClientReady' = FALSE
    /\ isInitializing' = FALSE
    /\ qrCodeData' = NoQr
    /\ IF CanReconnect(reconnectAttempts)
         THEN /\ reconnectAttempts' = reconnectAttempts + 1
              /\ timers' = timers + 1
              /\ lastDelay' = BackoffDelay(reconnectAttempts')
         ELSE /\ reconnectAttempts' = reconnectAttempts
              /\ timers' = timers
              /\ lastDelay' = lastDelay
    /\ UNCHANGED <<listening, client, handle, inits, restarts, restartRes, req>>

\* client.on('disconnected')
OnDisconnected(h) ==
    /\ Emits(h)
    /\ isClientReady' = FALSE
    /\ isInitializing' = FALSE
    /\ IF CanReconnect(reconnectAttempts)
         THEN /\ reconnectAttempts' = reconnectAttempts + 1
              /\ timers' = timers + 1
              /\ lastDelay' = BackoffDelay(reconnectAttempts')
         ELSE /\ reconnectAttempts' = reconnectAttempts
              /\ timers' = timers
              /\ lastDelay' = lastDelay
    /\ UNCHANGED <<listening, client, qrCodeData, handle, inits, restarts,
                   restartRes, req>>

\* ------------------------------------------------ POST /api/whatsapp/restart

\* after `client.destroy()`: reset the variables, schedule, respond
RestartReset(hs) ==
    /\ handle' = hs
    /\ isClientReady' = FALSE
    /\ isInitializing' = FALSE
    /\ reconnectAttempts' = 0
    /\ qrCodeData' = NoQr
    /\ timers' = timers + 1
    /\ lastDelay' = RestartDelay
    /\ restartRes' = 200
    /\ UNCHANGED <<listening, client, inits, req>>

\* the route, up to `await client.destroy()`
RestartCall ==
    /\ listening
    /\ IF client # NoClient
         THEN /\ restarts' = restarts (+) One(client)
              /\ UNCHANGED <<listening, client, isClientReady, qrCodeData,
                             isInitializing, reconnectAttempts, handle, inits,
                             timers, lastDelay, restartRes, req>>
         ELSE /\ RestartReset(handle)
              /\ UNCHANGED restarts

\* the restart's destroy() resolves
RestartDestroyResolves(h) ==
    /\ BagIn(h, restarts)
    /\ restarts' = restarts (-) One(h)
    /\ RestartReset([handle EXCEPT ![h] = "destroyed"])

\* ... or rejects: the route's catch answers 500
RestartDestroyRejects(h) ==
    /\ BagIn(h, restarts)
    /\ restarts' = restarts (-) One(h)
    /\ \E st \in {handle[h], "destroyed"} : handle' = [handle EXCEPT ![h] = st]
    /\ restartRes' = 500
    /\ UNCHANGED <<listening, client, isClientReady, qrCodeData, isInitializing,
                   reconnectAttempts, inits, timers, lastDelay, req>>

InitRecords == [pc : {"destroy", "initialize"}, h : Handles]

\* ------------------------------------------------------ safeClientOperation

\* the catch chain without its 503 branch
SendStatusGeneric(e) == IF e = "NotRegistered" THEN 400 ELSE 500

\* the catch chain of the send routes: the status answered for a thrown error
SendStatus(e) ==
    IF e = "NotRegistered" THEN 400
    ELSE IF e \in {"NotReady", "SessionClosed"} THEN 503
    ELSE 500

\* safeClientOperation returns or throws; a send route answers
Finish(r, outcome, e) ==
    [r EXCEPT !.pc = "done", !.outcome = outcome, !.err = e,
              !.status = IF r.kind = "op" THEN 0
                         ELSE IF outcome = "returned" THEN 200
                         ELSE SendStatus(e)]

\* the test off by one: `i === maxRetries`
LastAttemptLate(i, m) == i = m

\* `i === maxRetries - 1`
LastAttempt(i, m) == i = m - 1

\* the catch block of safeClientOperation
SafeCatch(r, e) ==
    IF LastAttempt(r.i, r.maxRetries)
      THEN Finish([r EXCEPT !.caught = e], "thrown", e)
      ELSE [r EXCEPT !.pc = "wait", !.caught = e]

\* isClientActuallyReady returned false: `throw new Error('Cliente no está listo')`
ProbeFailed(r) == SafeCatch([r EXCEPT !.pfails = @ + 1], "NotReady")

\* `client.pupPage && client.pupPage.isClosed()`; a handle destroyed before its
\* page was launched has no pupPage
PageClosed(h) ==
    CASE handle[h] = "crashed"   -> {TRUE}
      [] handle[h] = "destroyed" -> {TRUE, FALSE}
      [] OTHER                   -> {FALSE}

\* one loop iteration up to its first await: isClientActuallyReady up to
\* `await client.getState()`; the set of records it may leave
Attempt(r) ==
    LET r1 == [r EXCEPT !.probes = @ + 1] IN
    IF client = NoClient \/ ~isClientReady
      THEN {ProbeFailed(r1)}
      ELSE {IF closed THEN ProbeFailed(r1)
                      ELSE [r1 EXCEPT !.pc = "getState", !.h = client, !.probed = client]
            : closed \in PageClosed(client)}

\* the probe returned true: `operation()` up to its first await
Invoke(r) ==
    LET r1 == [r EXCEPT !.ops = @ + 1] IN
    CASE r.kind = "op"    -> {[r1 EXCEPT !.pc = "op"]}
      [] r.kind = "text"  -> {[r1 EXCEPT !.pc = "getNumberId", !.h = client,
                                         !.numberIds = @ + 1]}
      [] r.kind = "image" -> {[r1 EXCEPT !.pc = "getNumberId", !.h = client,
                                         !.numberIds = @ + 1],
                              SafeCatch(r1, "Other")}

NewReq(kind, m) == [IdleReq EXCEPT !.kind = kind, !.maxRetries = m]

Accepting == listening /\ req.pc \in {"idle", "done"}

\* POST /api/whatsapp/send-text
SendText(valid) ==
    /\ Accepting
    /\ IF valid
         THEN req' \in Attempt(NewReq("text", DefaultRetries))
         ELSE req' = [NewReq("text", DefaultRetries) EXCEPT
                        !.pc = "done", !.err = "Validation", !.status = 400]
    /\ UNCHANGED life

\* POST /api/whatsapp/send-image
SendImage(valid, exists) ==
    /\ Accepting
    /\ IF valid /\ exists
         THEN req' \in Attempt(NewReq("image", DefaultRetries))
         ELSE req' = [NewReq("image", DefaultRetries) EXCEPT
                        !.pc = "done", !.err = "Validation", !.status = 400]
    /\ UNCHANGED life

\* safeClientOperation(operation, m) with any operation
SafeOp(m) ==
    /\ Accepting
    /\ req' \in Attempt(NewReq("op", m))
    /\ UNCHANGED life

\* `await client.getState()` resolves
GetStateResolves(state) ==
    /\ req.pc = "getState"
    /\ Emits(req.h)
    /\ IF state = "CONNECTED"
         THEN req' \in Invoke(req)
         ELSE req' = ProbeFailed(req)
    /\ UNCHANGED life

\* ... or rejects: the probe's catch returns false
GetStateRejects ==
    /\ req.pc = "getState"
    /\ req' = ProbeFailed(req)
    /\ UNCHANGED life

\* `await client.getNumberId(...)` resolves with an id or with null
GetNumberIdResolves(registered) ==
    /\ req.pc = "getNumberId"
    /\ Emits(req.h)
    /\ IF registered
         THEN req' = [req EXCEPT !.pc = "sendMessage", !.h = client]
         ELSE req' = SafeCatch([req EXCEPT !.unreg = TRUE], "NotRegistered")
    /\ UNCHANGED life

GetNumberIdRejects(e) ==
    /\ req.pc = "getNumberId"
    /\ req' = SafeCatch(req, e)
    /\ UNCHANGED life

\* `await client.sendMessage(...)` settles
SendMessageResolves ==
    /\ req.pc = "sendMessage"
    /\ Emits(req.h)
    /\ req' = Finish(req, "returned", "none")
    /\ UNCHANGED life

SendMessageRejects(e) ==
    /\ req.pc = "sendMessage"
    /\ req' = SafeCatch(req, e)
    /\ UNCHANGED life

\* the operation handed to safeClientOperation settles
OpResolves ==
    /\ req.pc = "op"
    /\ req' = Finish(req, "returned", "none")
    /\ UNCHANGED life

OpRejects ==
    /\ req.pc = "op"
    /\ req' = SafeCatch(req, "Other")
    /\ UNCHANGED life

\* the retry delay 2000 * (i + 1) elapses: `i++`, the loop test, the next iteration
WaitDone ==
    /\ req.pc = "wait"
    /\ IF req.i + 1 < req.maxRetries
         THEN req' \in Attempt([req EXCEPT !.i = @ + 1])
         ELSE req' = Finish([req EXCEPT !.i = @ + 1], "undefined", "none")
    /\ UNCHANGED life

ClientErrors == {"SessionClosed", "Other"}

\* ------------------------------------------------------------ GET routes

\* the x-api-key / authorization header of a request
ApiKeys == {"none", "bad", "good"}

QrPath == "/api/whatsapp/qr"

\* the GET requests answered without an await; "/api/health" stands for any
\* path under /api that has no route
GetPaths == {"/", "/health", QrPath, "/api/health"}

\* app.use('/api', authenticateApiKey) applies to these
UnderApi(path) == path \in {QrPath, "/api/health"}

\* authenticateApiKey: the status it answers, 0 when it calls next()
AuthenticateApiKey(configured, key) ==
    IF ~configured THEN 0
    ELSE IF key = "none" THEN 401
    ELSE IF key = "bad" THEN 403
    ELSE 0

\* the route table in registration order, down to the 404 handler
Answer(path, configured, key) ==
    IF path = "/"
      THEN [path |-> path, status |-> 200,
            body |-> IF isClientReady THEN "Conectado" ELSE "Desconectado"]
    ELSE IF UnderApi(path) /\ AuthenticateApiKey(configured, key) # 0
      THEN [path |-> path, status |-> AuthenticateApiKey(configured, key),
            body |-> "error"]
    ELSE IF path = QrPath
      THEN [path |-> path, status |-> 200,
            body |-> IF qrCodeData # NoQr THEN "qr"
                     ELSE IF isClientReady THEN "connected"
                     ELSE "unavailable"]
    ELSE [path |-> path, status |-> 404, body |-> "error"]

\* a GET request is answered
Get(path, configured, key) ==
    /\ listening
    /\ http' = Answer(path, configured, key)
    /\ UNCHANGED <<life, req>>

\* -------------------------------------------------------- specifications

\* the part of the behaviours explored: c handles, t pending timers, n executions
\* of initializeWhatsApp in flight
Within(c, t, n) ==
    /\ Cardinality(Constructed) <= c
    /\ BagCardinality(inits) <= n
    /\ timers <= t
    /\ BagCardinality(restarts) <= MaxRestarts

\* the observers of the reconnect counter
LogDisconnected(d) ==
    IF discLog = <<>>
      THEN IF reconnectAttempts = 0 THEN <<d>> ELSE <<>>
      ELSE IF Len(discLog) < MaxDiscLog THEN Append(discLog, d) ELSE discLog

Scheduled == IF timers' > timers THEN lastDelay' ELSE 0

Observe(restart, disconnected) ==
    /\ exhausted' = IF restart /\ restartRes' = 200 /\ timers' > timers
                      THEN FALSE
                      ELSE exhausted \/ reconnectAttempts' = MAX_RECONNECT_ATTEMPTS
    /\ discLog' = IF disconnected THEN LogDisconnected(Scheduled)
                  ELSE IF reconnectAttempts' # reconnectAttempts THEN <<>>
                  ELSE discLog

\* a step of the lifecycle alone
Life(A) ==
    A /\ Within(MaxClients, MaxTimers, MaxInits)' /\ UNCHANGED <<obs, watch, http>>

NextLife ==
    \/ Life(Startup)
    \/ Life(TimerFire)
    \/ \E r \in InitRecords : Life(InitDestroyResolves(r))
    \/ \E r \in InitRecords : Life(InitDestroyRejects(r))
    \/ \E r \in InitRecords : Life(InitializeResolves(r))
    \/ \E r \in InitRecords : Life(InitializeRejects(r))
    \/ \E h \in Handles : Life(PageOpens(h))
    \/ \E h \in Handles : Life(PageCloses(h))
    \/ \E h \in Handles, q \in QrPayloads : Life(OnQr(h, q))
    \/ \E h \in Handles : Life(OnAuthenticated(h))
    \/ \E h \in Handles : Life(OnAuthFailure(h))
    \/ \E h \in Handles : Life(OnReady(h))
    \/ \E h \in Handles : Life(OnDisconnected(h))
    \/ Life(RestartCall)
    \/ \E h \in Handles : Life(RestartDestroyResolves(h))
    \/ \E h \in Handles : Life(RestartDestroyRejects(h))

SpecLife == Init /\ [][NextLife]_vars

\* a step of the lifecycle with the reconnect counter observed
Backoff(A, restart, disconnected) ==
    /\ A
    /\ Within(BackoffClients, BackoffTimers, BackoffInits)'
    /\ Observe(restart, disconnected)
    /\ UNCHANGED <<watch, http>>

NextBackoff ==
    \/ Backoff(Startup, FALSE, FALSE)
    \/ Backoff(TimerFire, FALSE, FALSE)
    \/ \E r \in InitRecords : Backoff(InitDestroyResolves(r), FALSE, FALSE)
    \/ \E r \in InitRecords : Backoff(InitDestroyRejects(r), FALSE, FALSE)
    \/ \E r \in InitRecords : Backoff(InitializeResolves(r), FALSE, FALSE)
    \/ \E r \in InitRecords : Backoff(InitializeRejects(r), FALSE, FALSE)
    \/ \E h \in Handles : Backoff(PageOpens(h), FALSE, FALSE)
    \/ \E h \in Handles : Backoff(OnAuthenticated(h), FALSE, FALSE)
    \/ \E h \in Handles : Backoff(OnAuthFailure(h), FALSE, FALSE)
    \/ \E h \in Handles : Backoff(OnReady(h), FALSE, FALSE)
    \/ \E h \in Handles : Backoff(OnDisconnected(h), FALSE, TRUE)
    \/ Backoff(RestartCall, TRUE, FALSE)
    \/ \E h \in Handles : Backoff(RestartDestroyResolves(h), TRUE, FALSE)
    \/ \E h \in Handles : Backoff(RestartDestroyRejects(h), TRUE, FALSE)

SpecBackoff == Init /\ [][NextBackoff]_vars

\* a step of the lifecycle where destroy() never rejects
Race(A) ==
    A /\ Within(RaceClients, RaceTimers, MaxInits)' /\ UNCHANGED <<obs, watch, http>>

NextRace ==
    \/ Race(Startup)
    \/ Race(TimerFire)
    \/ \E r \in InitRecords : Race(InitDestroyResolves(r))
    \/ \E r \in InitRecords : Race(InitializeResolves(r))
    \/ \E h \in Handles : Race(PageOpens(h))
    \/ \E h \in Handles : Race(OnReady(h))
    \/ \E h \in Handles : Race(OnDisconnected(h))
    \/ Race(RestartCall)
    \/ \E h \in Handles : Race(RestartDestroyResolves(h))

SpecRace == Init /\ [][NextRace]_vars

\* a step while requests are served: the session of the first client, before
\* any timer fires
Serve(A) ==
    A /\ Within(MaxClients, SendTimers, MaxInits)' /\ UNCHANGED <<obs, watch, http>>

NextSend ==
    \/ Serve(Startup)
    \/ \E r \in InitRecords : Serve(InitializeResolves(r))
    \/ \E r \in InitRecords : Serve(InitializeRejects(r))
    \/ \E h \in Handles : Serve(PageOpens(h))
    \/ \E h \in Handles : Serve(PageCloses(h))
    \/ \E h \in Handles, q \in QrPayloads : Serve(OnQr(h, q))
    \/ \E h \in Handles : Serve(OnAuthFailure(h))
    \/ \E h \in Handles : Serve(OnReady(h))
    \/ \E h \in Handles : Serve(OnDisconnected(h))
    \/ Serve(RestartCall)
    \/ \E h \in Handles : Serve(RestartDestroyResolves(h))
    \/ \E h \in Handles : Serve(RestartDestroyRejects(h))
    \/ \E v \in BOOLEAN : Serve(SendText(v))
    \/ \E v \in BOOLEAN, x \in BOOLEAN : Serve(SendImage(v, x))
    \/ \E m \in 1..MaxRetriesArg : Serve(SafeOp(m))
    \/ \E s \in {"CONNECTED", "OTHER"} : Serve(GetStateResolves(s))
    \/ Serve(GetStateRejects)
    \/ \E b \in BOOLEAN : Serve(GetNumberIdResolves(b))
    \/ \E e \in ClientErrors : Serve(GetNumberIdRejects(e))
    \/ Serve(SendMessageResolves)
    \/ \E e \in ClientErrors : Serve(SendMessageRejects(e))
    \/ Serve(OpResolves)
    \/ Serve(OpRejects)
    \/ Serve(WaitDone)

SpecSend == Init /\ [][NextSend]_vars

\* the observers of the handlers; kind: the handler that takes the step
ObserveQr(kind) ==
    qrCleared' = IF qrCodeData # NoQr /\ qrCodeData' = NoQr THEN kind ELSE qrCleared

ObserveWatch(kind) ==
    /\ failed' = IF kind = "auth_failure" THEN TRUE
                 ELSE IF kind = "restart" /\ restartRes' = 200 /\ timers' > timers
                   THEN FALSE
                 ELSE failed
    /\ lastInit' = IF kind \in {"startup", "timer"}
                     THEN IF isInitializing THEN "guarded" ELSE "ran"
                     ELSE lastInit
    /\ ObserveQr(kind)

\* a step of the lifecycle with the handlers watched, before any pairing code
Watch(A, kind) ==
    /\ A
    /\ Within(WatchClients, WatchTimers, WatchInits)'
    /\ ObserveWatch(kind)
    /\ UNCHANGED <<obs, http>>

NextWatch ==
    \/ Watch(Startup, "startup")
    \/ Watch(TimerFire, "timer")
    \/ \E r \in InitRecords : Watch(InitDestroyResolves(r), "init")
    \/ \E r \in InitRecords : Watch(InitDestroyRejects(r), "init")
    \/ \E r \in InitRecords : Watch(InitializeResolves(r), "init")
    \/ \E r \in InitRecords : Watch(InitializeRejects(r), "init")
    \/ \E h \in Handles : Watch(PageOpens(h), "page")
    \/ \E h \in Handles : Watch(OnAuthenticated(h), "authenticated")
    \/ \E h \in Handles : Watch(OnAuthFailure(h), "auth_failure")
    \/ \E h \in Handles : Watch(OnReady(h), "ready")
    \/ \E h \in Handles : Watch(OnDisconnected(h), "disconnected")
    \/ Watch(RestartCall, "restart")
    \/ \E h \in Handles : Watch(RestartDestroyResolves(h), "restart")
    \/ \E h \in Handles : Watch(RestartDestroyRejects(h), "restart")

SpecWatch == Init /\ [][NextWatch]_vars

\* a step of the lifecycle while pairing codes are issued
Pairing(A, kind) ==
    /\ A
    /\ Within(QrClients, QrTimers, WatchInits)'
    /\ ObserveQr(kind)
    /\ UNCHANGED <<obs, failed, lastInit, http>>

NextQr ==
    \/ Pairing(Startup, "startup")
    \/ Pairing(TimerFire, "timer")
    \/ \E r \in InitRecords : Pairing(InitDestroyResolves(r), "init")
    \/ \E r \in InitRecords : Pairing(InitializeResolves(r), "init")
    \/ \E r \in InitRecords : Pairing(InitializeRejects(r), "init")
    \/ \E h \in Handles : Pairing(PageOpens(h), "page")
    \/ \E h \in Handles, q \in QrPayloads : Pairing(OnQr(h, q), "qr")
    \/ \E h \in Handles : Pairing(OnAuthFailure(h), "auth_failure")
    \/ \E h \in Handles : Pairing(OnReady(h), "ready")
    \/ \E h \in Handles : Pairing(OnDisconnected(h), "disconnected")
    \/ Pairing(RestartCall, "restart")
    \/ \E h \in Handles : Pairing(RestartDestroyResolves(h), "restart")
    \/ \E h \in Handles : Pairing(RestartDestroyRejects(h), "restart")

SpecQr == Init /\ [][NextQr]_vars

\* a step of the lifecycle while GET requests are answered
Web(A) ==
    A /\ Within(QrClients, QrTimers, WatchInits)' /\ UNCHANGED <<obs, watch, http>>

\* a GET request answered
Answered(A) == A /\ UNCHANGED <<obs, watch>>

NextHttp ==
    \/ Web(Startup)
    \/ Web(TimerFire)
    \/ \E r \in InitRecords : Web(InitDestroyResolves(r))
    \/ \E r \in InitRecords : Web(InitializeResolves(r))
    \/ \E r \in InitRecords : Web(InitializeRejects(r))
    \/ \E h \in Handles : Web(PageOpens(h))
    \/ \E h \in Handles, q \in QrPayloads : Web(OnQr(h, q))
    \/ \E h \in Handles : Web(OnReady(h))
    \/ \E h \in Handles : Web(OnDisconnected(h))
    \/ Web(RestartCall)
    \/ \E h \in Handles : Web(RestartDestroyResolves(h))
    \/ \E p \in GetPaths, c \in BOOLEAN, k \in ApiKeys : Answered(Get(p, c, k))

SpecHttp == Init /\ [][NextHttp]_vars

\* ------------------------------------------------------------------ claims

\* a restart request is answered in this step
RestartAnswered ==
    \/ RestartCall /\ client = NoClient
    \/ \E h \in Handles : RestartDestroyResolves(h)
    \/ \E h \in Handles : RestartDestroyRejects(h)

\* ... after resetting the variables and scheduling initializeWhatsApp
RestartResets ==
    \/ RestartCall /\ client = NoClient
    \/ \E h \in Handles : RestartDestroyResolves(h)

\* this step calls setTimeout(initializeWhatsApp)
Schedules == timers' > timers \/ (TimerFire /\ timers' = timers)

\* C1: isClientReady and isInitializing are never both true.
C1_NeverBothFlags == ~(isClientReady /\ isInitializing)

\* C2: at most one constructed and not destroyed client handle exists at any
\* time (here even with a destroy() that never rejects).
C2_AtMostOneLiveHandle == Cardinality(LiveHandles) <= 1

\* C3 as amended: reconnectAttempts never exceeds MAX_RECONNECT_ATTEMPTS; while
\* it equals the maximum no step but an explicit restart schedules
\* initializeWhatsApp; and it leaves the maximum only by being reset to 0, by a
\* restart or by an 'authenticated' or 'ready' event.
C3_CounterCapped ==
    [][/\ reconnectAttempts' <= MAX_RECONNECT_ATTEMPTS
       /\ (reconnectAttempts = MAX_RECONNECT_ATTEMPTS /\ Schedules) => RestartResets
       /\ (reconnectAttempts = MAX_RECONNECT_ATTEMPTS
             /\ reconnectAttempts' # MAX_RECONNECT_ATTEMPTS)
          => /\ reconnectAttempts' = 0
             /\ \/ RestartResets
                \/ \E h \in Handles : OnAuthenticated(h) \/ OnReady(h)]_vars

\* C3, reached: a 'disconnected' event found the counter at the maximum and
\* scheduled nothing, the five attempts before it still pending
C3_Witness ==
    /\ reconnectAttempts = MAX_RECONNECT_ATTEMPTS
    /\ Len(discLog) = MAX_RECONNECT_ATTEMPTS + 1
    /\ discLog[MAX_RECONNECT_ATTEMPTS + 1] = 0
    /\ timers = MAX_RECONNECT_ATTEMPTS

\* C3 as stated: once the counter has reached the maximum, nothing but an
\* explicit restart schedules initializeWhatsApp until a restart has reset it.
C3_Original == [][(exhausted /\ Schedules) => RestartResets]_vars

\* C4: every restart request, in any state, resets the flags and the counter,
\* schedules initializeWhatsApp and answers 200, also when destroy() rejects.
C4_RestartAlwaysSchedules ==
    [][RestartAnswered =>
         /\ restartRes' = 200
         /\ timers' = timers + 1
         /\ lastDelay' = RestartDelay
         /\ ~isClientReady'
         /\ qrCodeData' = NoQr]_vars

\* C5: every restart leaves reconnectAttempts = 0 and isInitializing false, the
\* start of its one false -> true -> false cycle.
C5_RestartZeroesCounter ==
    [][RestartAnswered => (reconnectAttempts' = 0 /\ ~isInitializing')]_vars

\* C6: in a run of consecutive 'disconnected' events that starts with the
\* counter at 0, each of the first five schedules an attempt, the delays grow
\* strictly until they reach the cap and then stay at it, and the sixth and
\* later events schedule nothing.
C6_FiveThenStop ==
    /\ \A k \in 1..Len(discLog) :
         IF k <= MAX_RECONNECT_ATTEMPTS
           THEN discLog[k] > 0 /\ discLog[k] <= CapDelay
           ELSE discLog[k] = 0
    /\ \A k \in 1..(Len(discLog) - 1) :
         k < MAX_RECONNECT_ATTEMPTS =>
           \/ discLog[k] < discLog[k + 1]
           \/ discLog[k] = CapDelay /\ discLog[k + 1] = CapDelay

\* C6, reached: six consecutive 'disconnected' events, the cap reached
C6_Witness ==
    /\ Len(discLog) >= MAX_RECONNECT_ATTEMPTS + 1
    /\ discLog[1] = BaseDelay
    /\ discLog[MAX_RECONNECT_ATTEMPTS] = CapDelay

\* C7: the operation, and each client call it makes, is invoked only after the
\* probe of that attempt returned true and while the session is live: ready,
\* the handle the probe asked, not destroyed.
C7_OperationOnLiveSession ==
    [][(req'.pc \in {"getNumberId", "sendMessage", "op"} /\ req'.pc # req.pc)
         => /\ req.pc \in {"getState", "getNumberId"}
            /\ isClientReady
            /\ client = req.probed
            /\ Live(client)]_vars

\* C8: safeClientOperation calls the probe and the operation at most maxRetries
\* times each, never falls out of its loop, and when it throws it has made
\* maxRetries attempts and throws the error of the last one.
C8_BoundedRetries ==
    /\ req.probes <= req.maxRetries
    /\ req.ops <= req.maxRetries
    /\ req.outcome # "undefined"
    /\ req.outcome = "thrown" =>
         /\ req.probes = req.maxRetries
         /\ req.i = req.maxRetries - 1
         /\ req.err = req.caught

\* C8, reached: an operation that threw in every one of the most attempts
C8_Witness ==
    /\ req.kind = "op" /\ req.pc = "done" /\ req.outcome = "thrown"
    /\ req.maxRetries = MaxRetriesArg
    /\ req.ops = req.maxRetries
    /\ req.err = "Other"

\* C9: once getNumberId has answered null, the request is not retried:
\* getNumberId was called once, and the answer is 400.
C9_NotRegisteredNotRetried ==
    req.unreg => /\ req.numberIds = 1
                 /\ req.pc = "done" => req.status = 400

\* C10: a send-text request whose probe failed in every attempt is answered
\* 503 and never invoked its operation.
C10_ProbeFailureIs503 ==
    (req.kind = "text" /\ req.pc = "done" /\ req.pfails = DefaultRetries)
      => (req.status = 503 /\ req.outcome = "thrown" /\ req.ops = 0 /\ req.numberIds = 0)

\* C10, reached: such a request
C10_Witness ==
    /\ req.kind = "text" /\ req.pc = "done"
    /\ req.pfails = DefaultRetries
    /\ req.status = 503

\* C11: once 'auth_failure' was emitted, no step schedules or runs
\* initializeWhatsApp until an explicit restart has reset the session.
C11_FailedIsTerminal ==
    [][(failed /\ (TimerFire \/ Schedules)) => RestartResets]_vars

\* C12: the retry that the catch of initializeWhatsApp schedules uses the delay
\* a 'disconnected' event with the same counter value would use.
C12_CatchUsesBackoff ==
    [][\A r \in InitRecords :
         (InitializeRejects(r) /\ timers' > timers)
           => /\ reconnectAttempts' = reconnectAttempts + 1
              /\ lastDelay' = BackoffDelay(reconnectAttempts')]_vars

\* C13: when isClientActuallyReady returns true (the operation is invoked),
\* isClientReady is true and the page of the handle it asked is open.
C13_ProbeTrueOnlyIfReady ==
    [][(req.pc = "getState" /\ req'.ops = req.ops + 1)
         => (isClientReady /\ handle[req.probed] = "open")]_vars

\* C14 as amended: every 'qr' event stores its payload; a non-empty qrCodeData
\* becomes empty only in a 'ready' event or in the reset of a restart; and
\* whenever isClientReady becomes true qrCodeData is empty afterwards.
C14_QrSetAndCleared ==
    [][/\ \A h \in Handles, q \in QrPayloads : OnQr(h, q) => qrCodeData' = q
       /\ (qrCodeData # NoQr /\ qrCodeData' = NoQr)
            => \/ RestartResets
               \/ isClientReady' /\ \E h \in Handles : OnReady(h)
       /\ (~isClientReady /\ isClientReady') => qrCodeData' = NoQr]_vars

\* C14, reached: a restart emptied a pairing code that was on show
C14_Witness ==
    /\ qrCleared = "restart"
    /\ restartRes = 200
    /\ qrCodeData = NoQr
    /\ ~isClientReady

\* C14 as stated: a non-empty qrCodeData becomes empty only in a step in which
\* isClientReady becomes true.
C14_Original ==
    [][(qrCodeData # NoQr /\ qrCodeData' = NoQr)
         => (~isClientReady /\ isClientReady')]_vars

\* C15: a GET /health request is answered 200, whatever the session state and
\* the API key configuration.
C15_HealthAlways200 == http.path = "/health" => http.status = 200

\* C16: a call of initializeWhatsApp made while isInitializing is true only
\* consumes the timer that made it: no handle destroyed or constructed, no
\* execution started, no timer set, the five variables unchanged.
C16_GuardedCallIsNoOp ==
    [][(TimerFire /\ isInitializing)
         => /\ UNCHANGED <<client, isClientReady, isInitializing, qrCodeData,
                           reconnectAttempts, handle, inits, lastDelay>>
            /\ timers' = timers - 1]_vars

\* C16, reached: the latest call returned at the guard
C16_Witness ==
    /\ lastInit = "guarded"
    /\ isInitializing
    /\ BagCardinality(inits) = 1

\* C17: at most one execution of initializeWhatsApp is past the guard and
\* before the end of its destroy / construct / initialize sequence.
C17_OneExecutionInFlight == BagCardinality(inits) <= 1

\* C18: a 'disconnected' event with the counter at n < 5 makes it n + 1 and
\* schedules initializeWhatsApp after 5000, 10000, 20000, 30000, 30000 ms for
\* n = 0..4, never more than the cap.
C18_DisconnectedBackoff ==
    [][\A h \in Handles :
         (OnDisconnected(h) /\ reconnectAttempts < MAX_RECONNECT_ATTEMPTS)
           => /\ reconnectAttempts' = reconnectAttempts + 1
              /\ timers' = timers + 1
              /\ lastDelay' = <<5000, 10000, 20000, 30000, 30000>>[reconnectAttempts + 1]
              /\ lastDelay' <= CapDelay]_vars

\* C18, reached: five 'disconnected' events in a row, the last two at the cap
C18_Witness ==
    /\ reconnectAttempts = MAX_RECONNECT_ATTEMPTS
    /\ discLog = <<5000, 10000, 20000, 30000, 30000>>
    /\ lastDelay = CapDelay

\* C19: while isClientReady is true qrCodeData is empty, and GET
\* /api/whatsapp/qr does not answer with a pairing code.
C19_ReadyHidesQr ==
    isClientReady =>
      /\ qrCodeData = NoQr
      /\ \A c \in BOOLEAN, k \in ApiKeys : Answer(QrPath, c, k).body # "qr"

\* C19, reached: a session became ready after its pairing code was on show
C19_Witness ==
    /\ isClientReady
    /\ qrCleared = "ready"
    /\ Answer(QrPath, FALSE, "none").body = "connected"

\* C20: at most one setTimeout(initializeWhatsApp) is pending at any time.
C20_OneTimerPending == timers <= 1

====
